---- MODULE Spec2Model ----
(***************************************************************************)
(* Model of the Finviz screener script (3%UP.py): FinvizScanner.build_url, *)
(* daily_3up_scanner, fetch_results, format_output and main.               *)
(*                                                                         *)
(* A Python str is a sequence of one-character strings, so that joining,   *)
(* splitting, stripping and lower-casing are computed and not assumed.     *)
(* A printed line is the sequence of its characters; the text of an        *)
(* exception, str(e), is kept as one element of the line.                  *)
(***************************************************************************)
EXTENDS Integers, Sequences, FiniteSets, TLC

VARIABLES
    pc,            \* position of the running call
    filters,       \* build_url: the filters dict, as its (code, value) items in insertion order
    output,        \* build_url: the output argument
    order,         \* build_url: the order argument
    url,           \* the URL built
    gets,          \* number of requests.get calls issued
    status,        \* fetch_results: response.status_code
    content,       \* fetch_results: response.content, the tables of the document in document order
    soup,          \* fetch_results: the parsed document
    table,         \* fetch_results: position in soup of the located table, 0 for None
    all_rows,      \* fetch_results: table.find_all('tr')
    data_rows,     \* fetch_results: all_rows[1:]
    idx,           \* fetch_results: position of the for loop in data_rows
    results,       \* fetch_results: the list being built
    exc,           \* fetch_results: the exception raised inside the try block
    main_results,  \* the value fetch_results returned, main's results
    scanner_name,  \* format_output: the scanner_name argument
    stdout,        \* what print wrote, one entry per print call
    stderr         \* what traceback.print_exc wrote

vars == <<pc, filters, output, order, url, gets, status, content, soup, table,
          all_rows, data_rows, idx, results, exc, main_results, scanner_name,
          stdout, stderr>>

(***************************************************************************)
(* Bounds of the model.                                                    *)
(***************************************************************************)
MaxFilters == 2
MaxTables == 2
MaxRows == 3
MaxResults == 3

(***************************************************************************)
(* Python str and list operations.                                         *)
(***************************************************************************)
RECURSIVE Concat(_)
Concat(ss) == IF ss = <<>> THEN <<>> ELSE Head(ss) \o Concat(Tail(ss))

\* sep.join(parts)
RECURSIVE Join(_, _)
Join(parts, sep) ==
    IF parts = <<>> THEN <<>>
    ELSE IF Len(parts) = 1 THEN parts[1]
    ELSE parts[1] \o sep \o Join(Tail(parts), sep)

\* c.isspace() for the characters str.strip() removes
IsSpace(c) == c \in {" ", "\n", "\t", "\r"}

RECURSIVE LStrip(_)
LStrip(s) == IF s # <<>> /\ IsSpace(Head(s)) THEN LStrip(Tail(s)) ELSE s

RECURSIVE RStrip(_)
RStrip(s) ==
    IF s # <<>> /\ IsSpace(s[Len(s)]) THEN RStrip(SubSeq(s, 1, Len(s) - 1)) ELSE s

\* s.strip()
Strip(s) == RStrip(LStrip(s))

UpperCase == <<"A","B","C","D","E","F","G","H","I","J","K","L","M","N","O","P","Q","R","S","T","U","V","W","X","Y","Z">>
LowerCase == <<"a","b","c","d","e","f","g","h","i","j","k","l","m","n","o","p","q","r","s","t","u","v","w","x","y","z">>

LowerChar(c) ==
    IF \E i \in 1..Len(UpperCase) : UpperCase[i] = c
    THEN LowerCase[CHOOSE i \in 1..Len(UpperCase) : UpperCase[i] = c]
    ELSE c

\* s.lower()
Lower(s) == [i \in 1..Len(s) |-> LowerChar(s[i])]

\* needle in s
Contains(s, needle) ==
    \E i \in 0..(Len(s) - Len(needle)) : SubSeq(s, i + 1, i + Len(needle)) = needle

\* c * n
Repeat(c, n) == [i \in 1..n |-> c]

(***************************************************************************)
(* FinvizScanner.build_url and daily_3up_scanner.                          *)
(***************************************************************************)
BASE_URL == <<"h","t","t","p","s",":","/","/","f","i","n","v","i","z",".","c","o","m","/","s","c","r","e","e","n","e","r",".","a","s","h","x">>

DefaultOutput == <<"1","1","1">>
DefaultOrder == <<"-","v","o","l","u","m","e">>

\* [f"{k}_{v}" for k, v in filters.items()], reversed: a dict iterated in the wrong order
FilterTokensReversed(fs) ==
    [i \in 1..Len(fs) |-> fs[Len(fs) + 1 - i][1] \o <<"_">> \o fs[Len(fs) + 1 - i][2]]

\* [f"{k}_{v}" for k, v in filters.items()]
FilterTokens(fs) == [i \in 1..Len(fs) |-> fs[i][1] \o <<"_">> \o fs[i][2]]

filter_str(fs) == Join(FilterTokens(fs), <<",">>)

build_url(fs, out, ord) ==
    BASE_URL \o <<"?","v","=">> \o out \o <<"&","f","=">> \o filter_str(fs) \o <<"&","f","t","=","4","&","o","=">> \o ord

Daily3upFilters ==
    << <<<<"i","n","d">>, <<"s","t","o","c","k","s","o","n","l","y">>>>,
       <<<<"s","h","_","p","r","i","c","e">>, <<"o","3","0">>>>,
       <<<<"s","h","_","r","e","l","v","o","l">>, <<"o","2">>>>,
       <<<<"t","a","_","a","v","e","r","a","g","e","t","r","u","e","r","a","n","g","e">>, <<"o","2">>>>,
       <<<<"t","a","_","c","h","a","n","g","e">>, <<"u","3">>>>,
       <<<<"t","a","_","s","m","a","2","0","0">>, <<"p","a">>>> >>

daily_3up_scanner == build_url(Daily3upFilters, DefaultOutput, DefaultOrder)

(***************************************************************************)
(* The fetched document.  A document is the sequence of its <table>        *)
(* elements in document order; a table has an optional class attribute     *)
(* (its whitespace-separated tokens) and its <tr> rows in document order.  *)
(* A row is one of a few sample rows; find_all_td gives its <td> cells,    *)
(* and a cell is the sequence of its text nodes in document order.         *)
(***************************************************************************)
AAPL == <<"A","A","P","L">>
TSLA == <<"T","S","L","A">>
NVDA == <<"N","V","D","A">>

Digits == <<"0","1","2","3","4","5","6","7","8","9","X","Y">>

\* text of the k-th cell (0-indexed) of the sample row of ticker t
CellText(t, k) ==
    IF k = 0 THEN <<"1">>
    ELSE IF k = 1 THEN t
    ELSE t \o <<":">> \o <<Digits[k + 1]>>

\* <td>\n  <a> text \n</a></td>: one text node with text, whitespace around it
PaddedCell(text) == << <<"\n"," "," ">>, <<" ">> \o text \o <<" ","\n">> >>

\* <td>text <span>Inc </span></td>: two text nodes with text
NestedCell(text) == << text \o <<" ">>, <<"I","n","c"," ">> >>

\* <td>text</td>
PlainCell(text) == << text >>

Rows == {"row_aapl", "row_tsla", "row_nvda"}

\* row.find_all('td')
find_all_td(row) ==
    CASE row = "row_aapl" -> [j \in 1..11 |-> PaddedCell(CellText(AAPL, j - 1))]
      [] row = "row_tsla" -> [j \in 1..12 |-> NestedCell(CellText(TSLA, j - 1))]
      [] row = "row_nvda" -> [j \in 1..10 |-> PlainCell(CellText(NVDA, j - 1))]

NoClass == [has_class |-> FALSE, tokens |-> <<>>]
ClassOf(toks) == [has_class |-> TRUE, tokens |-> toks]

ClassAttrs ==
    { NoClass,
      ClassOf(<< <<"s","c","r","e","e","n","e","r","_","t","a","b","l","e">> >>),
      ClassOf(<< <<"d","a","r","k">>, <<"S","c","r","e","e","n","e","r","-","B","o","d","y">> >>),
      ClassOf(<< <<"c","o","n","t","e","n","t">> >>) }

\* the rows of table i of n, when the rows of the document are flat, in document
\* order, and table i ends after row cuts[i] (the last table after the last row)
TableRows(flat, cuts, n, i) ==
    SubSeq(flat, IF i = 1 THEN 1 ELSE cuts[i - 1] + 1, IF i = n THEN Len(flat) ELSE cuts[i])

\* the document of the tables with class attributes cls, holding the rows flat
Document(cls, flat, cuts) ==
    [i \in 1..Len(cls) |->
        [has_class |-> cls[i].has_class,
         tokens    |-> cls[i].tokens,
         rows      |-> TableRows(flat, cuts, Len(cls), i)]]

\* rows lie in tables, and the tables follow each other
IsLayout(n, flat, cuts) ==
    /\ n = 0 => flat = <<>>
    /\ \A i \in 1..(n - 2) : cuts[i] <= cuts[i + 1]

StatusCodes == {200, 300, 404}

(***************************************************************************)
(* fetch_results: locating the table.                                      *)
(***************************************************************************)
SCREENER_TABLE == <<"s","c","r","e","e","n","e","r","_","t","a","b","l","e">>
SCREENER == <<"s","c","r","e","e","n","e","r">>

\* the class attribute as one string
ClassString(t) == Join(t.tokens, <<" ">>)

\* {'class': 'screener_table'}: a token of the class attribute, or the whole
\* attribute, equals the name
MatchesExact(t) ==
    /\ t.has_class
    /\ \/ \E i \in 1..Len(t.tokens) : t.tokens[i] = SCREENER_TABLE
       \/ ClassString(t) = SCREENER_TABLE

\* lambda x: x and 'screener' in x.lower()
ScreenerLambda(x) == x # <<>> /\ Contains(Lower(x), SCREENER)

\* class_=<function>: the function holds of a token of the class attribute or of
\* the whole attribute; a table without the attribute gives it None
MatchesFuzzy(t) ==
    /\ t.has_class
    /\ \/ \E i \in 1..Len(t.tokens) : ScreenerLambda(t.tokens[i])
       \/ ScreenerLambda(ClassString(t))

\* soup.find('table', ...): the first table in document order, 0 for None
FindExact(doc) ==
    IF \E i \in 1..Len(doc) : MatchesExact(doc[i])
    THEN CHOOSE i \in 1..Len(doc) :
            MatchesExact(doc[i]) /\ \A j \in 1..(i - 1) : ~MatchesExact(doc[j])
    ELSE 0

FindFuzzy(doc) ==
    IF \E i \in 1..Len(doc) : MatchesFuzzy(doc[i])
    THEN CHOOSE i \in 1..Len(doc) :
            MatchesFuzzy(doc[i]) /\ \A j \in 1..(i - 1) : ~MatchesFuzzy(doc[j])
    ELSE 0

\* one find for both selectors: the first table matching either
LocateFirstOfEither(doc) ==
    IF \E i \in 1..Len(doc) : MatchesExact(doc[i]) \/ MatchesFuzzy(doc[i])
    THEN CHOOSE i \in 1..Len(doc) :
            /\ MatchesExact(doc[i]) \/ MatchesFuzzy(doc[i])
            /\ \A j \in 1..(i - 1) : ~(MatchesExact(doc[j]) \/ MatchesFuzzy(doc[j]))
    ELSE 0

\* a third find for any table at all when both selectors gave None
LocateTableAnyFallback(doc) ==
    IF FindExact(doc) # 0 THEN FindExact(doc)
    ELSE IF FindFuzzy(doc) # 0 THEN FindFuzzy(doc)
    ELSE IF doc # <<>> THEN 1 ELSE 0

\* lines 77-80: the exact find, and the fallback find when it gave None
LocateTable(doc) == IF FindExact(doc) # 0 THEN FindExact(doc) ELSE FindFuzzy(doc)

(***************************************************************************)
(* fetch_results: rows to records.                                         *)
(***************************************************************************)
MinCells == 11

\* cells[k], k counted from 0 as in the source
Cell(cells, k) == cells[k + 1]

\* cell.get_text(strip=True): every text node stripped, the empty ones dropped,
\* the rest joined with nothing between them
get_text(cell) == Concat([i \in 1..Len(cell) |-> Strip(cell[i])])

\* the fields off by one: cells 0..9
StockFromCellZero(cells) ==
    [ticker     |-> get_text(Cell(cells, 0)),
     company    |-> get_text(Cell(cells, 1)),
     sector     |-> get_text(Cell(cells, 2)),
     industry   |-> get_text(Cell(cells, 3)),
     country    |-> get_text(Cell(cells, 4)),
     market_cap |-> get_text(Cell(cells, 5)),
     pe         |-> get_text(Cell(cells, 6)),
     price      |-> get_text(Cell(cells, 7)),
     change     |-> get_text(Cell(cells, 8)),
     volume     |-> get_text(Cell(cells, 9))]

\* lines 97-108
Stock(cells) ==
    [ticker     |-> get_text(Cell(cells, 1)),
     company    |-> get_text(Cell(cells, 2)),
     sector     |-> get_text(Cell(cells, 3)),
     industry   |-> get_text(Cell(cells, 4)),
     country    |-> get_text(Cell(cells, 5)),
     market_cap |-> get_text(Cell(cells, 6)),
     pe         |-> get_text(Cell(cells, 7)),
     price      |-> get_text(Cell(cells, 8)),
     change     |-> get_text(Cell(cells, 9)),
     volume     |-> get_text(Cell(cells, 10))]

\* len(cells) > 11: the comparison strict
HasEnoughCellsStrict(cells) == Len(cells) > MinCells

\* line 95
HasEnoughCells(cells) == Len(cells) >= MinCells

\* all_rows[0:]: the header row kept
KeepAllRows(rows) == rows

\* line 90: all_rows[1:]
SkipHeader(rows) == IF rows = <<>> THEN <<>> ELSE Tail(rows)

(***************************************************************************)
(* format_output.  stdout holds one entry per print call: a line of text,  *)
(* or the table handed to tabulate (its headers and its rows; the grid     *)
(* drawing itself is tabulate's).                                          *)
(***************************************************************************)
Line(text) == [kind |-> "line", text |-> text, headers |-> <<>>, rows |-> <<>>]
Grid(headers, data) == [kind |-> "table", text |-> <<>>, headers |-> headers, rows |-> data]

\* datetime.now().strftime("%Y-%m-%d")
Dates == { <<"2","0","2","4","-","0","1","-","0","2">>, <<"2","0","2","5","-","1","2","-","3","1">> }

DefaultScannerName == <<"d","a","i","l","y","-","3","u","p">>

\* lines 128-147
HeaderLines(name, today, u) ==
    << Line(<<"F","i","n","v","i","z"," ","S","c","r","e","e","n","e","r"," ","R","e","s","u","l","t","s"," ","-"," ">> \o name \o <<" ","-"," ">> \o today),
       Line(Repeat("=", 40)),
       Line(<<>>),
       Line(<<"S","c","r","e","e","n","i","n","g"," ","C","r","i","t","e","r","i","a",":">>),
       Line(<<"-"," ","D","a","i","l","y"," ","3","%"," ","U","P">>),
       Line(<<"-"," ","P","r","i","c","e"," ",">"," ","$","3","0">>),
       Line(<<"-"," ","A","b","o","v","e"," ","2","0","0"," ","S","M","A">>),
       Line(<<"-"," ","A","T","R"," ","2">>),
       Line(<<"-"," ","R","V","O","L"," ","2">>),
       Line(<<>>),
       Line(<<"U","R","L",":">>),
       Line(u),
       Line(Repeat("-", 60)),
       Line(<<>>) >>

TableHeaders ==
    << <<"N","o">>, <<"T","i","c","k","e","r">>, <<"C","o","m","p","a","n","y">>, <<"S","e","c","t","o","r">>, <<"I","n","d","u","s","t","r","y">>, <<"C","o","u","n","t","r","y">>,
       <<"M","a","r","k","e","t"," ","C","a","p">>, <<"P","/","E">>, <<"P","r","i","c","e">>, <<"C","h","a","n","g","e">>, <<"V","o","l","u","m","e">> >>

\* enumerate(results): counting from 0
RowIndexFromZero(i) == i - 1

\* enumerate(results, 1)
RowIndex(i) == i

\* lines 157-170
table_data(res) ==
    [i \in 1..Len(res) |->
        << RowIndex(i), res[i].ticker, res[i].company, res[i].sector, res[i].industry,
           res[i].country, res[i].market_cap, res[i].pe, res[i].price, res[i].change,
           res[i].volume >>]

\* line 171
tickers(res) == [i \in 1..Len(res) |-> res[i].ticker]

\* lines 153-185
TableLines(res) ==
    << Grid(TableHeaders, table_data(res)),
       Line(<<>>),
       Line(<<"T","i","c","k","e","r"," ","S","y","m","b","o","l","s",":">>),
       Line(Join(tickers(res), <<","," ">>)) >>

\* lines 149-185 without the return of line 151
ReportBodyNoReturn(res) ==
    IF res = <<>> THEN << Line(<<"N","o"," ","r","e","s","u","l","t","s"," ","f","o","u","n","d",".">>) >> \o TableLines(res)
    ELSE TableLines(res)

\* lines 149-185
ReportBody(res) ==
    IF res = <<>> THEN << Line(<<"N","o"," ","r","e","s","u","l","t","s"," ","f","o","u","n","d",".">>) >>
    ELSE TableLines(res)

format_output(res, u, name, today) == HeaderLines(name, today, u) \o ReportBody(res)

(***************************************************************************)
(* fetch_results: failures.                                                *)
(***************************************************************************)
\* requests.get raising: requests.ConnectionError, requests.Timeout
GetExceptions == {"ConnectionError", "Timeout"}

\* response.raise_for_status(): raises HTTPError for a 4xx or 5xx status
RaisesForStatus(s) == 400 <= s /\ s < 600

\* except requests.RequestException: the parsing errors not caught
CatchesRequestsOnly(e) == e \in {"ConnectionError", "Timeout", "HTTPError"}

\* line 113: except Exception
Catches(e) == e \in {"ConnectionError", "Timeout", "HTTPError", "ParseError", "CellError"}

\* return results in the handler: the rows read before the failure kept
HandlerReturnsPartial(res) == res

\* line 117: return []
HandlerReturn(res) == <<>>

(***************************************************************************)
(* Inputs of build_url and of format_output when called on their own.      *)
(***************************************************************************)
FilterCodes == { <<"i","n","d">>, <<"s","h","_","p","r","i","c","e">>, <<"a",",","b">>, <<"x","&","y">> }
FilterValues == { <<"o","3","0">>, <<"u","3",",","o","2">>, <<"p","_","a","&","q">> }

\* a dict: no code twice, the items in insertion order
FilterSets ==
    UNION { { f \in [1..n -> FilterCodes \X FilterValues] :
                \A i, j \in 1..n : f[i][1] = f[j][1] => i = j } : n \in 0..MaxFilters }

Outputs == { DefaultOutput, <<"1","5","2">> }
Orders == { DefaultOrder, <<"p","r","i","c","e">> }

\* a record fetch_results builds from a row of ticker t
SampleStock(t) ==
    [ticker     |-> t,
     company    |-> CellText(t, 2),
     sector     |-> CellText(t, 3),
     industry   |-> CellText(t, 4),
     country    |-> CellText(t, 5),
     market_cap |-> CellText(t, 6),
     pe         |-> CellText(t, 7),
     price      |-> CellText(t, 8),
     change     |-> CellText(t, 9),
     volume     |-> CellText(t, 10)]

SampleStocks == { SampleStock(AAPL), SampleStock(TSLA), SampleStock(NVDA) }

ResultSets == UNION { [1..n -> SampleStocks] : n \in 0..MaxResults }

ScannerNames == { DefaultScannerName, <<"w","e","e","k","l","y">> }

(***************************************************************************)
(* State.                                                                  *)
(***************************************************************************)
NoLocals ==
    /\ status = 0
    /\ content = <<>>
    /\ soup = <<>>
    /\ table = 0
    /\ all_rows = <<>>
    /\ data_rows = <<>>
    /\ idx = 0
    /\ results = <<>>
    /\ exc = "none"

NoOutput ==
    /\ stdout = <<>>
    /\ stderr = <<>>

\* main about to run
Init ==
    /\ pc = "main"
    /\ filters = <<>>
    /\ output = <<>>
    /\ order = <<>>
    /\ url = <<>>
    /\ gets = 0
    /\ main_results = <<>>
    /\ scanner_name = <<>>
    /\ NoLocals
    /\ NoOutput

\* build_url about to run on a FilterSet
InitUrl ==
    /\ pc = "build_url"
    /\ filters \in FilterSets
    /\ output \in Outputs
    /\ order \in Orders
    /\ url = <<>>
    /\ gets = 0
    /\ main_results = <<>>
    /\ scanner_name = <<>>
    /\ NoLocals
    /\ NoOutput

\* format_output about to run on a ResultSet
InitFormat ==
    /\ pc = "format_output"
    /\ filters = Daily3upFilters
    /\ output = DefaultOutput
    /\ order = DefaultOrder
    /\ url = daily_3up_scanner
    /\ gets = 0
    /\ main_results \in ResultSets
    /\ scanner_name \in ScannerNames
    /\ NoLocals
    /\ NoOutput

urlVars == <<filters, output, order, url>>
localVars == <<status, content, soup, table, all_rows, data_rows, idx, results, exc>>
outVars == <<stdout, stderr>>

(***************************************************************************)
(* Actions.                                                                *)
(***************************************************************************)
\* build_url(filters, output, order)
BuildUrl ==
    /\ pc = "build_url"
    /\ url' = build_url(filters, output, order)
    /\ pc' = "url_built"
    /\ UNCHANGED <<filters, output, order, gets, main_results, scanner_name>>
    /\ UNCHANGED localVars
    /\ UNCHANGED outVars

\* main, lines 190-193: url = scanner.daily_3up_scanner()
Daily3upScanner ==
    /\ pc = "main"
    /\ filters' = Daily3upFilters
    /\ output' = DefaultOutput
    /\ order' = DefaultOrder
    /\ url' = build_url(Daily3upFilters, DefaultOutput, DefaultOrder)
    /\ pc' = "get"
    /\ UNCHANGED <<gets, main_results, scanner_name>>
    /\ UNCHANGED localVars
    /\ UNCHANGED outVars

\* line 71: requests.get answers
GetResponds ==
    /\ pc = "get"
    /\ gets' = gets + 1
    /\ \E s \in StatusCodes, n \in 0..MaxTables, len \in 0..MaxRows :
          \E cls \in [1..n -> ClassAttrs], flat \in [1..len -> Rows],
             cuts \in [1..(n - 1) -> 0..len] :
             /\ IsLayout(n, flat, cuts)
             /\ status' = s
             /\ content' = Document(cls, flat, cuts)
    /\ pc' = "raise_for_status"
    /\ UNCHANGED <<soup, table, all_rows, data_rows, idx, results, exc>>
    /\ UNCHANGED <<main_results, scanner_name>>
    /\ UNCHANGED urlVars
    /\ UNCHANGED outVars

\* line 71: requests.get raises (no connection, or no answer within the timeout)
GetFails ==
    /\ pc = "get"
    /\ gets' = gets + 1
    /\ \E e \in GetExceptions : exc' = e
    /\ pc' = "except"
    /\ UNCHANGED <<status, content, soup, table, all_rows, data_rows, idx, results>>
    /\ UNCHANGED <<main_results, scanner_name>>
    /\ UNCHANGED urlVars
    /\ UNCHANGED outVars

\* line 72: response.raise_for_status()
RaiseForStatus ==
    /\ pc = "raise_for_status"
    /\ IF RaisesForStatus(status)
       THEN exc' = "HTTPError" /\ pc' = "except"
       ELSE exc' = exc /\ pc' = "parse"
    /\ UNCHANGED <<status, content, soup, table, all_rows, data_rows, idx, results>>
    /\ UNCHANGED <<gets, main_results, scanner_name>>
    /\ UNCHANGED urlVars
    /\ UNCHANGED outVars

\* line 74: soup = BeautifulSoup(response.content, 'html.parser')
Parse ==
    /\ pc = "parse"
    /\ soup' = content
    /\ pc' = "find_table"
    /\ UNCHANGED <<status, content, table, all_rows, data_rows, idx, results, exc>>
    /\ UNCHANGED <<gets, main_results, scanner_name>>
    /\ UNCHANGED urlVars
    /\ UNCHANGED outVars

\* line 74: the parser raises
ParseFails ==
    /\ pc = "parse"
    /\ exc' = "ParseError"
    /\ pc' = "except"
    /\ UNCHANGED <<status, content, soup, table, all_rows, data_rows, idx, results>>
    /\ UNCHANGED <<gets, main_results, scanner_name>>
    /\ UNCHANGED urlVars
    /\ UNCHANGED outVars

\* lines 77-83: locate the table; return [] when there is none
FindTable ==
    /\ pc = "find_table"
    /\ table' = LocateTable(soup)
    /\ IF table' = 0
       THEN main_results' = <<>> /\ pc' = "returned"
       ELSE main_results' = main_results /\ pc' = "find_rows"
    /\ UNCHANGED <<status, content, soup, all_rows, data_rows, idx, results, exc>>
    /\ UNCHANGED <<gets, scanner_name>>
    /\ UNCHANGED urlVars
    /\ UNCHANGED outVars

\* lines 87-92: all_rows, data_rows, results = []
FindRows ==
    /\ pc = "find_rows"
    /\ all_rows' = soup[table].rows
    /\ data_rows' = SkipHeader(all_rows')
    /\ results' = <<>>
    /\ idx' = 1
    /\ pc' = "for_row"
    /\ UNCHANGED <<status, content, soup, table, exc>>
    /\ UNCHANGED <<gets, main_results, scanner_name>>
    /\ UNCHANGED urlVars
    /\ UNCHANGED outVars

\* lines 93-109: one pass of the loop
ForRow ==
    /\ pc = "for_row"
    /\ idx <= Len(data_rows)
    /\ LET cells == find_all_td(data_rows[idx])
       IN  results' = IF HasEnoughCells(cells) THEN Append(results, Stock(cells))
                      ELSE results
    /\ idx' = idx + 1
    /\ UNCHANGED <<pc, status, content, soup, table, all_rows, data_rows, exc>>
    /\ UNCHANGED <<gets, main_results, scanner_name>>
    /\ UNCHANGED urlVars
    /\ UNCHANGED outVars

\* lines 94-108: reading the cells of a row raises
ForRowFails ==
    /\ pc = "for_row"
    /\ idx <= Len(data_rows)
    /\ exc' = "CellError"
    /\ pc' = "except"
    /\ UNCHANGED <<status, content, soup, table, all_rows, data_rows, idx, results>>
    /\ UNCHANGED <<gets, main_results, scanner_name>>
    /\ UNCHANGED urlVars
    /\ UNCHANGED outVars

\* line 111: return results
ReturnResults ==
    /\ pc = "for_row"
    /\ idx > Len(data_rows)
    /\ main_results' = results
    /\ pc' = "returned"
    /\ UNCHANGED localVars
    /\ UNCHANGED <<gets, scanner_name>>
    /\ UNCHANGED urlVars
    /\ UNCHANGED outVars

\* lines 113-117: the handler; an exception it does not catch leaves the call
Except ==
    /\ pc = "except"
    /\ IF Catches(exc)
       THEN /\ stdout' = Append(stdout, Line(<<"E","r","r","o","r"," ","f","e","t","c","h","i","n","g"," ","r","e","s","u","l","t","s",":"," ">> \o <<exc>>))
            /\ stderr' = Append(stderr, Line(<<"T","r","a","c","e","b","a","c","k"," ","(","m","o","s","t"," ","r","e","c","e","n","t"," ","c","a","l","l"," ","l","a","s","t",")",":"," ">> \o <<exc>>))
            /\ main_results' = HandlerReturn(results)
            /\ pc' = "returned"
       ELSE /\ stderr' = Append(stderr, Line(<<"T","r","a","c","e","b","a","c","k"," ","(","m","o","s","t"," ","r","e","c","e","n","t"," ","c","a","l","l"," ","l","a","s","t",")",":"," ">> \o <<exc>>))
            /\ pc' = "raised"
            /\ UNCHANGED <<stdout, main_results>>
    /\ UNCHANGED localVars
    /\ UNCHANGED <<gets, scanner_name>>
    /\ UNCHANGED urlVars

\* main, lines 196-199: results = fetch_results(url), then format_output(results, url)
MainCallsFormat ==
    /\ pc = "returned"
    /\ scanner_name' = DefaultScannerName
    /\ pc' = "format_output"
    /\ status' = 0
    /\ content' = <<>>
    /\ soup' = <<>>
    /\ table' = 0
    /\ all_rows' = <<>>
    /\ data_rows' = <<>>
    /\ idx' = 0
    /\ results' = <<>>
    /\ exc' = "none"
    /\ UNCHANGED <<gets, main_results>>
    /\ UNCHANGED urlVars
    /\ UNCHANGED outVars

\* format_output(results, url, scanner_name)
FormatOutput ==
    /\ pc = "format_output"
    /\ \E today \in Dates :
          stdout' = stdout \o format_output(main_results, url, scanner_name, today)
    /\ pc' = "done"
    /\ UNCHANGED <<stderr, gets, main_results, scanner_name>>
    /\ UNCHANGED localVars
    /\ UNCHANGED urlVars

Next ==
    \/ Daily3upScanner
    \/ GetResponds
    \/ GetFails
    \/ RaiseForStatus
    \/ Parse
    \/ ParseFails
    \/ FindTable
    \/ FindRows
    \/ ForRow
    \/ ForRowFails
    \/ ReturnResults
    \/ Except
    \/ MainCallsFormat
    \/ FormatOutput

Spec == Init /\ [][Next]_vars

NextUrl == BuildUrl

SpecUrl == InitUrl /\ [][NextUrl]_vars

NextFormat == FormatOutput

SpecFormat == InitFormat /\ [][NextFormat]_vars

(***************************************************************************)
(* Properties.  What they compare the state with is written out here, not  *)
(* taken from the operators above.                                         *)
(***************************************************************************)
Fields ==
    <<"ticker", "company", "sector", "industry", "country",
      "market_cap", "pe", "price", "change", "volume">>

FieldSet == { Fields[j] : j \in 1..Len(Fields) }

\* the text of a cell with the whitespace at its two ends removed
TrimmedText(cell) == Strip(Concat(cell))

\* the text nodes of a cell, each with the whitespace at its ends removed, put
\* together with nothing between them
RECURSIVE TrimmedNodesJoined(_)
TrimmedNodesJoined(cell) ==
    IF cell = <<>> THEN <<>> ELSE Strip(Head(cell)) \o TrimmedNodesJoined(Tail(cell))

\* field j of the record of a row is the text of its cell j (cell 0 is the first)
RecordOfRow(row) == [f \in FieldSet |->
    TrimmedNodesJoined(find_all_td(row)[(CHOOSE j \in 1..Len(Fields) : Fields[j] = f) + 1])]

IsLongRow(row) == Len(find_all_td(row)) >= 11

\* fetch_results has returned by line 83 or line 111
ReturnedNormally == pc = "returned" /\ exc = "none"

\* fetch_results has returned by line 111: a table was located and its rows read
ReturnedRows == ReturnedNormally /\ table # 0

\* the rows of the located table
LocatedRows == soup[table].rows

HeaderAndLongRows ==
    /\ ReturnedRows
    /\ Len(LocatedRows) >= 1
    /\ \A i \in 2..Len(LocatedRows) : IsLongRow(LocatedRows[i])

\* C1 as claimed: a table of a header row and K data rows of at least 11 cells
\* gives K records, record i from data row i, its ten fields the trimmed text of
\* cells 1..10 of that row.
C1_TrimmedCellText ==
    HeaderAndLongRows =>
        /\ Len(main_results) = Len(LocatedRows) - 1
        /\ \A i \in 1..Len(main_results) :
              /\ DOMAIN main_results[i] = FieldSet
              /\ \A j \in 1..Len(Fields) :
                    main_results[i][Fields[j]]
                        = TrimmedText(find_all_td(LocatedRows[i + 1])[j + 1])

\* C1 amended: a table of a header row and K data rows of at least 11 cells
\* gives K records, record i from data row i in document order, its ten fields
\* the text nodes of cells 1..10 of that row, each node trimmed, joined with
\* nothing between them; cell 0 is not used, rows of one ticker give a record each.
C1_TrimmedNodesOfCells ==
    HeaderAndLongRows =>
        /\ Len(main_results) = Len(LocatedRows) - 1
        /\ \A i \in 1..Len(main_results) :
              /\ DOMAIN main_results[i] = FieldSet
              /\ \A j \in 1..Len(Fields) :
                    main_results[i][Fields[j]]
                        = TrimmedNodesJoined(find_all_td(LocatedRows[i + 1])[j + 1])

\* C1, its case: a header row and two data rows of the same ticker, 11 cells each
C1_TwoRowsOfOneTicker ==
    /\ HeaderAndLongRows
    /\ Len(LocatedRows) = 3
    /\ LocatedRows[2] = "row_aapl"
    /\ LocatedRows[3] = "row_aapl"
    /\ Len(main_results) = 2
    /\ main_results[1].ticker = AAPL
    /\ main_results[2].ticker = AAPL

FailedAsClaimed == exc # "none" \/ (status # 0 /\ ~(status \in 200..299))

\* a failure inside fetch_results: an exception raised, among them the HTTPError
\* of a 4xx or 5xx status
Failed == exc # "none"

\* C3 as claimed: one GET per call, nothing raised to the caller, and on every
\* failure, a non-2xx status among them, an empty ResultSet.
C3_EmptyOnNon2xx ==
    /\ gets <= 1
    /\ pc \notin {"main", "get"} => gets = 1
    /\ pc # "raised"
    /\ (pc = "returned" /\ FailedAsClaimed) => main_results = <<>>

\* C3 amended: one GET per call, nothing raised to the caller, and on every
\* failure (connection error, timeout, 4xx or 5xx status, an exception while
\* parsing or reading cells) an empty ResultSet, the records read before the
\* failure not returned.
C3_EmptyOnFailure ==
    /\ gets <= 1
    /\ pc \notin {"main", "get"} => gets = 1
    /\ pc # "raised"
    /\ (pc = "returned" /\ Failed) => main_results = <<>>
    /\ (pc \in {"parse", "find_table", "find_rows", "for_row"}) => status \notin 400..599
    /\ (pc = "returned" /\ status \in 400..599) => exc = "HTTPError"

\* C3, its case: reading a row failed after a record had been appended
C3_FailedAfterFirstRecord ==
    /\ pc = "returned"
    /\ exc = "CellError"
    /\ results # <<>>
    /\ main_results = <<>>
    /\ gets = 1

\* a class attribute naming the class screener_table
NamesScreenerTable(t) ==
    t.has_class /\ \E i \in 1..Len(t.tokens) : t.tokens[i] = SCREENER_TABLE

\* a class attribute containing "screener", letter case aside
MentionsScreener(t) ==
    t.has_class /\ Contains(Lower(Join(t.tokens, <<" ">>)), SCREENER)

NoTableMatches(doc) ==
    \A i \in 1..Len(doc) : ~NamesScreenerTable(doc[i]) /\ ~MentionsScreener(doc[i])

\* C4: on a document with no table matching either selector the extraction
\* returns an empty ResultSet; the handler is not entered, nothing is printed.
C4_NoTableIsEmpty ==
    [][(pc = "find_table" /\ NoTableMatches(soup)) =>
          /\ pc' = "returned"
          /\ main_results' = <<>>
          /\ table' = 0
          /\ exc' = "none"
          /\ stdout' = <<>>
          /\ stderr' = <<>>]_vars

\* C4, its case: a document of two tables with rows, neither matching
C4_TablesButNoneMatching ==
    /\ ReturnedNormally
    /\ Len(soup) = 2
    /\ NoTableMatches(soup)
    /\ soup[1].rows # <<>>
    /\ main_results = <<>>
    /\ stdout = <<>>
    /\ stderr = <<>>

\* the template around the filters: <base>?v=<output_code>&f= and &ft=4&o=<sort_code>
TemplateHead == BASE_URL \o <<"?","v","=">> \o output \o <<"&","f","=">>
TemplateTail == <<"&","f","t","=","4","&","o","=">> \o order

InTemplate(u) ==
    /\ Len(u) >= Len(TemplateHead) + Len(TemplateTail)
    /\ SubSeq(u, 1, Len(TemplateHead)) = TemplateHead
    /\ SubSeq(u, Len(u) - Len(TemplateTail) + 1, Len(u)) = TemplateTail

\* what the template holds in the place of <filters>
FiltersPart(u) == SubSeq(u, Len(TemplateHead) + 1, Len(u) - Len(TemplateTail))

\* the comma-separated tokens of a string; the empty string holds none
RECURSIVE CommaTokens(_)
CommaTokens(s) ==
    IF s = <<>> THEN <<>>
    ELSE IF \E i \in 1..Len(s) : s[i] = ","
    THEN LET c == CHOOSE i \in 1..Len(s) : s[i] = "," /\ \A j \in 1..(i - 1) : s[j] # ","
         IN  IF c = Len(s) THEN << SubSeq(s, 1, c - 1), <<>> >>
             ELSE << SubSeq(s, 1, c - 1) >> \o CommaTokens(SubSeq(s, c + 1, Len(s)))
    ELSE << s >>

HasComma(s) == \E i \in 1..Len(s) : s[i] = ","

CommaFree(fs) == \A i \in 1..Len(fs) : ~HasComma(fs[i][1]) /\ ~HasComma(fs[i][2])

TokensAreFilters(u) ==
    /\ InTemplate(u)
    /\ LET toks == CommaTokens(FiltersPart(u))
       IN  /\ Len(toks) = Len(filters)
           /\ \A i \in 1..Len(filters) : toks[i] = filters[i][1] \o <<"_">> \o filters[i][2]

\* C5 as claimed: for every FilterSet of N entries the URL is the template with
\* exactly N comma-separated <code>_<value> tokens in insertion order.
C5_TokensOfAnyFilterSet == pc = "url_built" => TokensAreFilters(url)

\* C5 amended: for every FilterSet of N entries (N = 0 too) whose codes and values
\* hold no ',' the URL is the template with exactly N comma-separated
\* <code>_<value> tokens in insertion order; '_' and '&' in them change nothing.
C5_TokensOfCommaFreeFilterSet ==
    /\ pc = "url_built" => InTemplate(url)
    /\ (pc = "url_built" /\ CommaFree(filters)) => TokensAreFilters(url)

\* C5, its case: two filters, '&' and '_' in the first
C5_TwoFiltersWithAmpersand ==
    /\ pc = "url_built"
    /\ Len(filters) = 2
    /\ filters[1] = << <<"x","&","y">>, <<"p","_","a","&","q">> >>
    /\ filters[2] = << <<"s","h","_","p","r","i","c","e">>, <<"o","3","0">> >>
    /\ Len(CommaTokens(FiltersPart(url))) = 2

IsLine(e, text) == e.kind = "line" /\ e.text = text

StartsWith(s, prefix) == Len(s) >= Len(prefix) /\ SubSeq(s, 1, Len(prefix)) = prefix

\* entries k+1 .. k+14 of out are the title line, the criteria block and the URL
\* block, in that order
HeaderBlocksAt(out, k, u) ==
    /\ Len(out) >= k + 14
    /\ out[k + 1].kind = "line"
    /\ StartsWith(out[k + 1].text, <<"F","i","n","v","i","z"," ","S","c","r","e","e","n","e","r"," ","R","e","s","u","l","t","s"," ","-"," ">> \o scanner_name \o <<" ","-"," ">>)
    /\ \E d \in Dates : out[k + 1].text = <<"F","i","n","v","i","z"," ","S","c","r","e","e","n","e","r"," ","R","e","s","u","l","t","s"," ","-"," ">> \o scanner_name \o <<" ","-"," ">> \o d
    /\ IsLine(out[k + 4], <<"S","c","r","e","e","n","i","n","g"," ","C","r","i","t","e","r","i","a",":">>)
    /\ IsLine(out[k + 5], <<"-"," ","D","a","i","l","y"," ","3","%"," ","U","P">>)
    /\ IsLine(out[k + 6], <<"-"," ","P","r","i","c","e"," ",">"," ","$","3","0">>)
    /\ IsLine(out[k + 7], <<"-"," ","A","b","o","v","e"," ","2","0","0"," ","S","M","A">>)
    /\ IsLine(out[k + 8], <<"-"," ","A","T","R"," ","2">>)
    /\ IsLine(out[k + 9], <<"-"," ","R","V","O","L"," ","2">>)
    /\ IsLine(out[k + 11], <<"U","R","L",":">>)
    /\ IsLine(out[k + 12], u)
    /\ \A i \in {2, 3, 10, 13, 14} : out[k + i].kind = "line"

\* entries k+1 .. of out are the report of an empty ResultSet
EmptyReportAt(out, k, u) ==
    /\ HeaderBlocksAt(out, k, u)
    /\ Len(out) = k + 15
    /\ IsLine(out[k + 15], <<"N","o"," ","r","e","s","u","l","t","s"," ","f","o","u","n","d",".">>)

\* C6: format_output on an empty ResultSet prints the title line, the criteria
\* block and the URL block in that order, then one "No results found." line and
\* nothing after it: no table, no ticker list.
C6_EmptyReport ==
    (pc = "done" /\ main_results = <<>>) =>
        /\ EmptyReportAt(stdout, 0, url)
        /\ \A i \in 1..Len(stdout) :
              /\ stdout[i].kind # "table"
              /\ ~IsLine(stdout[i], <<"T","i","c","k","e","r"," ","S","y","m","b","o","l","s",":">>)

\* C6, its case: format_output has run on an empty ResultSet
C6_EmptyReportPrinted ==
    /\ pc = "done"
    /\ main_results = <<>>
    /\ Len(stdout) = 15
    /\ scanner_name = <<"w","e","e","k","l","y">>

\* ", ".join of the tickers of the records, in their order
RECURSIVE TickerLine(_)
TickerLine(res) ==
    IF res = <<>> THEN <<>>
    ELSE IF Len(res) = 1 THEN res[1].ticker
    ELSE res[1].ticker \o <<","," ">> \o TickerLine(Tail(res))

\* C7: format_output on n > 0 records prints the title line, the criteria block,
\* the URL, a table of n rows and the ticker list, in that order; row i holds i
\* and the ten fields of record i, and the ticker line is the tickers joined by
\* ", " in the order of the rows (AAPL, TSLA, NVDA give "AAPL, TSLA, NVDA").
C7_TableAndTickerLine ==
    (pc = "done" /\ main_results # <<>>) =>
        /\ HeaderBlocksAt(stdout, 0, url)
        /\ Len(stdout) = 18
        /\ stdout[15].kind = "table"
        /\ Len(stdout[15].headers) = 11
        /\ Len(stdout[15].rows) = Len(main_results)
        /\ \A i \in 1..Len(main_results) :
              /\ Len(stdout[15].rows[i]) = 11
              /\ stdout[15].rows[i][1] = i
              /\ \A j \in 1..Len(Fields) :
                    stdout[15].rows[i][j + 1] = main_results[i][Fields[j]]
        /\ IsLine(stdout[16], <<>>)
        /\ IsLine(stdout[17], <<"T","i","c","k","e","r"," ","S","y","m","b","o","l","s",":">>)
        /\ IsLine(stdout[18], TickerLine(main_results))
        /\ (/\ Len(main_results) = 3
            /\ main_results[1].ticker = AAPL
            /\ main_results[2].ticker = TSLA
            /\ main_results[3].ticker = NVDA)
           => stdout[18].text = <<"A","A","P","L",","," ","T","S","L","A",","," ","N","V","D","A">>

\* C7, its case: format_output has run on the records of AAPL, TSLA, NVDA
C7_ThreeStocksPrinted ==
    /\ pc = "done"
    /\ Len(main_results) = 3
    /\ main_results[1].ticker = AAPL
    /\ main_results[2].ticker = TSLA
    /\ main_results[3].ticker = NVDA
    /\ Len(stdout) = 18
    /\ stdout[18].text = <<"A","A","P","L",","," ","T","S","L","A",","," ","N","V","D","A">>
    /\ Len(stdout[15].rows) = 3

\* main has finished and fetch_results had failed: the handler wrote the trace
FetchFailed == stderr # <<>>

\* C8 as claimed: in a run of main whose fetch fails, what is shown is the header,
\* criteria, URL and "No results found." of a run with no matching rows, and
\* nothing tells the two apart.
C8_FailureShownAsNoResults ==
    (pc = "done" /\ FetchFailed) => EmptyReportAt(stdout, 0, url)

\* C8 amended: in a run of main whose fetch fails, fetch_results prints the line
\* "Error fetching results: <exception>" on standard output and the trace on
\* standard error; the report after it is the header, criteria, URL and
\* "No results found." of a run with no matching rows, which prints only that.
C8_FailureShownAsErrorLineAndNoResults ==
    /\ (pc = "done" /\ FetchFailed) =>
          /\ EmptyReportAt(stdout, 1, url)
          /\ stdout[1].kind = "line"
          /\ StartsWith(stdout[1].text, <<"E","r","r","o","r"," ","f","e","t","c","h","i","n","g"," ","r","e","s","u","l","t","s",":"," ">>)
          /\ Len(stderr) = 1
          /\ main_results = <<>>
    /\ (pc = "done" /\ ~FetchFailed /\ main_results = <<>>) =>
          EmptyReportAt(stdout, 0, url)

\* C8, its case: main has finished after requests.get timed out
C8_FailedRunPrinted ==
    /\ pc = "done"
    /\ FetchFailed
    /\ Len(stdout) = 16
    /\ stdout[1].text = <<"E","r","r","o","r"," ","f","e","t","c","h","i","n","g"," ","r","e","s","u","l","t","s",":"," ">> \o <<"Timeout">>

\* the table has been located (line 83 passed, or returned there)
TableLocated == pc \in {"find_rows", "for_row"} \/ ReturnedNormally

Exact(doc) == { i \in 1..Len(doc) : NamesScreenerTable(doc[i]) }
Fuzzy(doc) == { i \in 1..Len(doc) : MentionsScreener(doc[i]) }
First(S) == CHOOSE i \in S : \A j \in S : i <= j

\* C9: when a table names the class screener_table the first such table is used,
\* also when a table whose class only contains "screener" comes before it; when
\* none does, the first table whose class contains "screener", letter case aside,
\* is used; a table without a class attribute is never used.
C9_ExactBeforeFuzzy ==
    TableLocated =>
        /\ Exact(soup) # {} => table = First(Exact(soup))
        /\ (Exact(soup) = {} /\ Fuzzy(soup) # {}) => table = First(Fuzzy(soup))
        /\ (Exact(soup) = {} /\ Fuzzy(soup) = {}) => table = 0
        /\ table # 0 => soup[table].has_class

\* C9, its case: a table whose class contains "screener" before the screener_table one
C9_FuzzyTableBeforeExactTable ==
    /\ TableLocated
    /\ Len(soup) = 2
    /\ MentionsScreener(soup[1])
    /\ ~NamesScreenerTable(soup[1])
    /\ NamesScreenerTable(soup[2])
    /\ table = 2

\* C10: the first row of the located table never gives a record, whatever it
\* holds: the records are as many as the rows at position 2 or later with at
\* least 11 cells; a table of no row or one row gives an empty ResultSet, and
\* the handler is not entered for it.
C10_FirstRowSkipped ==
    /\ ReturnedRows =>
          /\ Len(main_results)
                = Cardinality({ i \in 2..Len(LocatedRows) : IsLongRow(LocatedRows[i]) })
          /\ Len(LocatedRows) <= 1 => main_results = <<>>
    /\ (pc \in {"for_row", "except", "returned"} /\ table # 0 /\ Len(LocatedRows) <= 1) =>
          /\ exc = "none"
          /\ pc # "except"
          /\ results = <<>>
          /\ idx > Len(data_rows)

\* C10, its case: the first row of the located table has 11 cells
C10_LongFirstRow ==
    /\ ReturnedRows
    /\ LocatedRows = <<"row_aapl", "row_tsla">>
    /\ Len(main_results) = 1
    /\ main_results[1].ticker = <<"T","S","L","A","I","n","c">>

====
